---- MODULE Spec2Model ----
(***************************************************************************)
(* Model of the interactions service (src/main.go): the POST /like and     *)
(* POST /watch request handlers, the duplicate guard (hasLiked /           *)
(* hasWatched), likeVideo / watchVideo and modifyInterests, running        *)
(* against the four MongoDB collections.  Every store round trip is one    *)
(* step of a request, so that concurrent requests interleave exactly at    *)
(* the store calls, as they do in the server (one goroutine per request,   *)
(* no locks, no transactions).                                             *)
(***************************************************************************)
EXTENDS Integers, Sequences, FiniteSets, TLC

\* ---------------------------------------------------------------- bounds
\* number of requests that can be in flight at the same time
NProcs == 2
\* total number of requests started in one run
MaxReq == 2
\* number of store calls that can fail in one run
MaxFaults == 1
\* width of the signed integer that stands for int64 (int64 has 64)
IntBits == 4

Procs == 1..NProcs

\* ------------------------------------------------------------- constants
\* math.MaxInt64, at the model's width
MaxInt64 == 2^(IntBits - 1) - 1
\* likeVideo: currentInterestValue += 11
LikeWeight == 11
\* watchVideo: currentInterestValue -= 1
WatchWeight == 0 - 1

\* the documents of the users and video_metadata collections
Users == {1, 2}
Videos == {1, 2, 3}
\* models.DatabaseVideo.Tags, set at upload time and never changed afterwards
VideoTags == <<  <<"cats", "funny">>, <<"cats">>, <<"funny", "funny">>  >>

\* HTTP status of the response
StatusNone == 0
StatusOK == 200
StatusConflict == 412
StatusError == 500

VARIABLES
    usersCollection,          \* user id -> interests map (tag -> score)
    videosCollection,         \* video id -> likes
    likedVideosCollection,    \* <<user id, video id>> -> number of rows
    watchedVideosCollection,  \* <<user id, video id>> -> number of rows
    pc,                       \* position of each request handler
    req,                      \* route and parameters of the request
    user,                     \* result of getUser (handler local)
    video,                    \* result of getVideo (handler local)
    status,                   \* status of the response sent
    logs,                     \* what the request wrote to the log
    started,                  \* number of requests started so far
    faults,                   \* number of store calls that failed so far
    overlapped,               \* history: two requests were in flight at once
    initialLikes,             \* history: video id -> likes in the initial state
    maxLikesLog               \* ids in the "Max likes on video %d" log lines

vars == <<usersCollection, videosCollection, likedVideosCollection,
          watchedVideosCollection, pc, req, user, video, status, logs,
          started, faults, overlapped, initialLikes, maxLikesLog>>

store == <<usersCollection, videosCollection, likedVideosCollection,
           watchedVideosCollection>>

NoReq == [kind |-> "none", userId |-> 0, videoId |-> 0]
NoUser == [Id |-> 0, Interests |-> <<>>]
NoVideo == [Id |-> 0, Tags |-> <<>>, Likes |-> 0]

\* the handler of request q has not returned yet
InFlight(q) == pc[q] \notin {"idle", "done"}

\* the outcomes a store call can have now: TRUE it succeeds, FALSE it
\* returns an error
Outcomes == IF faults < MaxFaults THEN BOOLEAN ELSE {TRUE}

\* ------------------------------------------------------------ Go map ops
\* v, exists := m[k]; if !exists { v = 0 }
Get(m, k) == IF k \in DOMAIN m THEN m[k] ELSE 0
\* m[k] = x
Put(m, k, x) == [j \in (DOMAIN m) \cup {k} |-> IF j = k THEN x ELSE m[j]]

\* ----------------------------------------------------------------- guard
\* CountDocuments(filter {user_id, video_id}, Limit: limit)
CountDocuments(coll, userId, videoId, limit) ==
    IF coll[<<userId, videoId>>] > limit THEN limit
    ELSE coll[<<userId, videoId>>]

\* mutant: the like guard queries the watch collection
hasLikedOnWatched(userId, videoId, ok) ==
    IF ~ok THEN TRUE
    ELSE CountDocuments(watchedVideosCollection, userId, videoId, 1) = 1

\* mutant: a failed count query lets the request through
hasLikedFailOpen(userId, videoId, ok) ==
    ok /\ CountDocuments(likedVideosCollection, userId, videoId, 1) = 1

\* ok = FALSE: the count query returned an error
hasLiked(userId, videoId, ok) ==
    IF ~ok THEN TRUE
    ELSE CountDocuments(likedVideosCollection, userId, videoId, 1) = 1

\* mutant: hasWatched is the copy of hasLiked, collection included
hasWatchedOnLiked(userId, videoId, ok) ==
    IF ~ok THEN TRUE
    ELSE CountDocuments(likedVideosCollection, userId, videoId, 1) = 1

hasWatched(userId, videoId, ok) ==
    IF ~ok THEN TRUE
    ELSE CountDocuments(watchedVideosCollection, userId, videoId, 1) = 1

\* ------------------------------------------------------------- interests
\* the loop of likeVideo / watchVideo over video.Tags:
\*   interests[tag] = user.Interests[tag] (0 if absent) + weight
RECURSIVE tagLoop(_, _, _, _)
tagLoop(userInterests, tags, weight, interests) ==
    IF tags = <<>> THEN interests
    ELSE tagLoop(userInterests, Tail(tags), weight,
                 Put(interests, Head(tags),
                     Get(userInterests, Head(tags)) + weight))

\* mutant: the like loop is the copy of the watch loop, weight included
likeInterestsWatchWeight(u, v) == tagLoop(u.Interests, v.Tags, WatchWeight, <<>>)

\* the map likeVideo hands to modifyInterests
likeInterests(u, v) == tagLoop(u.Interests, v.Tags, LikeWeight, <<>>)
\* the map watchVideo hands to modifyInterests
watchInterests(u, v) == tagLoop(u.Interests, v.Tags, WatchWeight, <<>>)

\* mutant: $set writes the argument map, not user.Interests
modifyInterestsOnlyArg(userInterests, interests) ==
    [name \in DOMAIN interests |-> Get(userInterests, name) + interests[name]]

\* mutant: the loop assigns the value instead of adding it
modifyInterestsOverwrite(userInterests, interests) ==
    [name \in (DOMAIN userInterests) \cup (DOMAIN interests) |->
        IF name \in DOMAIN interests
        THEN interests[name]
        ELSE userInterests[name]]

\* the loop of modifyInterests: user.Interests[name] += value for every
\* entry of interests; the result is the map written by $set
modifyInterests(userInterests, interests) ==
    [name \in (DOMAIN userInterests) \cup (DOMAIN interests) |->
        IF name \in DOMAIN interests
        THEN Get(userInterests, name) + interests[name]
        ELSE userInterests[name]]

\* mutant: the check is off by one (>= math.MaxInt64)
maxLikesOffByOne(v) == v.Likes >= MaxInt64

\* likeVideo: if video.Likes >= math.MaxInt64 - 1
maxLikes(v) == v.Likes >= MaxInt64 - 1

\* ------------------------------------------------------------------ Init
Init ==
    /\ usersCollection = [u \in Users |-> <<>>]
    /\ \E n \in {0, MaxInt64 - 2, MaxInt64 - 1} :
          videosCollection = [v \in Videos |-> IF v = 1 THEN n ELSE 0]
    /\ likedVideosCollection = [k \in Users \X Videos |-> 0]
    /\ watchedVideosCollection = [k \in Users \X Videos |-> 0]
    /\ pc = [p \in Procs |-> "idle"]
    /\ req = [p \in Procs |-> NoReq]
    /\ user = [p \in Procs |-> NoUser]
    /\ video = [p \in Procs |-> NoVideo]
    /\ status = [p \in Procs |-> StatusNone]
    /\ logs = [p \in Procs |-> {}]
    /\ started = 0
    /\ faults = 0
    /\ overlapped = FALSE
    /\ initialLikes = videosCollection
    /\ maxLikesLog = {}

\* --------------------------------------------------------------- actions
\* a request arrives: POST /like/:video_id/:user_id or /watch/...
Request(p) ==
    /\ pc[p] \in {"idle", "done"}
    /\ started < MaxReq
    /\ \E kind \in {"like", "watch"}, u \in Users, v \in Videos :
          req' = [req EXCEPT ![p] = [kind |-> kind, userId |-> u, videoId |-> v]]
    /\ pc' = [pc EXCEPT ![p] = "guard"]
    /\ user' = [user EXCEPT ![p] = NoUser]
    /\ video' = [video EXCEPT ![p] = NoVideo]
    /\ status' = [status EXCEPT ![p] = StatusNone]
    /\ logs' = [logs EXCEPT ![p] = {}]
    /\ started' = started + 1
    /\ overlapped' = (overlapped \/ \E q \in Procs \ {p} : InFlight(q))
    /\ UNCHANGED <<store, faults, initialLikes, maxLikesLog>>

\* mutant: the return after SendStatus(412) is missing
handlerGuardStepFallThrough(p, ok) ==
    /\ pc[p] = "guard"
    /\ LET already == IF req[p].kind = "like"
                      THEN hasLiked(req[p].userId, req[p].videoId, ok)
                      ELSE hasWatched(req[p].userId, req[p].videoId, ok)
       IN  /\ pc' = [pc EXCEPT ![p] = "getUser"]
           /\ status' = [status EXCEPT ![p] =
                            IF already THEN StatusConflict ELSE StatusNone]
    /\ logs' = [logs EXCEPT ![p] = IF ok THEN @ ELSE @ \cup {"countErr"}]
    /\ faults' = IF ok THEN faults ELSE faults + 1
    /\ UNCHANGED <<store, req, user, video, started, overlapped,
                   initialLikes, maxLikesLog>>

\* if hasLiked(userId, videoId) { SendStatus(412); return nil }
handlerGuardStep(p, ok) ==
    /\ pc[p] = "guard"
    /\ LET already == IF req[p].kind = "like"
                      THEN hasLiked(req[p].userId, req[p].videoId, ok)
                      ELSE hasWatched(req[p].userId, req[p].videoId, ok)
       IN  /\ pc' = [pc EXCEPT ![p] = IF already THEN "done" ELSE "getUser"]
           /\ status' = [status EXCEPT ![p] =
                            IF already THEN StatusConflict ELSE StatusNone]
    /\ logs' = [logs EXCEPT ![p] = IF ok THEN @ ELSE @ \cup {"countErr"}]
    /\ faults' = IF ok THEN faults ELSE faults + 1
    /\ UNCHANGED <<store, req, user, video, started, overlapped,
                   initialLikes, maxLikesLog>>

handlerGuard(p) == \E ok \in Outcomes : handlerGuardStep(p, ok)

\* user, err := getUser(userId); if err != nil { return err }
handlerGetUserStep(p, ok) ==
    /\ pc[p] = "getUser"
    /\ IF ok
       THEN /\ user' = [user EXCEPT ![p] =
                   [Id |-> req[p].userId,
                    Interests |-> usersCollection[req[p].userId]]]
            /\ pc' = [pc EXCEPT ![p] = "getVideo"]
            /\ UNCHANGED status
       ELSE /\ pc' = [pc EXCEPT ![p] = "done"]
            /\ status' = [status EXCEPT ![p] = StatusError]
            /\ UNCHANGED user
    /\ faults' = IF ok THEN faults ELSE faults + 1
    /\ UNCHANGED <<store, req, video, logs, started, overlapped,
                   initialLikes, maxLikesLog>>

handlerGetUser(p) == \E ok \in Outcomes : handlerGetUserStep(p, ok)

\* video, err := getVideo(videoId); if err != nil { return err }
handlerGetVideoStep(p, ok) ==
    /\ pc[p] = "getVideo"
    /\ IF ok
       THEN /\ video' = [video EXCEPT ![p] =
                   [Id |-> req[p].videoId,
                    Tags |-> VideoTags[req[p].videoId],
                    Likes |-> videosCollection[req[p].videoId]]]
            /\ pc' = [pc EXCEPT ![p] = "insert"]
            /\ UNCHANGED status
       ELSE /\ pc' = [pc EXCEPT ![p] = "done"]
            /\ status' = [status EXCEPT ![p] = StatusError]
            /\ UNCHANGED video
    /\ faults' = IF ok THEN faults ELSE faults + 1
    /\ UNCHANGED <<store, req, user, logs, started, overlapped,
                   initialLikes, maxLikesLog>>

handlerGetVideo(p) == \E ok \in Outcomes : handlerGetVideoStep(p, ok)

\* mutant: the insert is an upsert on (user_id, video_id)
likeVideoInsertStepUpsert(p, ok) ==
    /\ pc[p] = "insert"
    /\ req[p].kind = "like"
    /\ IF ok
       THEN /\ likedVideosCollection' =
                   [likedVideosCollection EXCEPT ![<<user[p].Id, video[p].Id>>] = 1]
            /\ pc' = [pc EXCEPT ![p] = "interests"]
            /\ UNCHANGED status
       ELSE /\ pc' = [pc EXCEPT ![p] = "done"]
            /\ status' = [status EXCEPT ![p] = StatusError]
            /\ UNCHANGED likedVideosCollection
    /\ faults' = IF ok THEN faults ELSE faults + 1
    /\ UNCHANGED <<usersCollection, videosCollection, watchedVideosCollection,
                   req, user, video, logs, started, overlapped,
                   initialLikes, maxLikesLog>>

\* mutant: the error of InsertOne is not checked
likeVideoInsertStepUnchecked(p, ok) ==
    /\ pc[p] = "insert"
    /\ req[p].kind = "like"
    /\ likedVideosCollection' =
          IF ok
          THEN [likedVideosCollection EXCEPT ![<<user[p].Id, video[p].Id>>] = @ + 1]
          ELSE likedVideosCollection
    /\ pc' = [pc EXCEPT ![p] = "interests"]
    /\ faults' = IF ok THEN faults ELSE faults + 1
    /\ UNCHANGED <<usersCollection, videosCollection, watchedVideosCollection,
                   req, user, video, status, logs, started, overlapped,
                   initialLikes, maxLikesLog>>

\* likeVideo: likedVideosCollection.InsertOne; if err != nil { return err }
likeVideoInsertStep(p, ok) ==
    /\ pc[p] = "insert"
    /\ req[p].kind = "like"
    /\ IF ok
       THEN /\ likedVideosCollection' =
                   [likedVideosCollection EXCEPT ![<<user[p].Id, video[p].Id>>] = @ + 1]
            /\ pc' = [pc EXCEPT ![p] = "interests"]
            /\ UNCHANGED status
       ELSE /\ pc' = [pc EXCEPT ![p] = "done"]
            /\ status' = [status EXCEPT ![p] = StatusError]
            /\ UNCHANGED likedVideosCollection
    /\ faults' = IF ok THEN faults ELSE faults + 1
    /\ UNCHANGED <<usersCollection, videosCollection, watchedVideosCollection,
                   req, user, video, logs, started, overlapped,
                   initialLikes, maxLikesLog>>

likeVideoInsert(p) == \E ok \in Outcomes : likeVideoInsertStep(p, ok)

\* mutant: the merge is applied to the stored map, not to the map read
likeVideoInterestsStepOnStored(p, ok) ==
    /\ pc[p] = "interests"
    /\ req[p].kind = "like"
    /\ usersCollection' =
          IF ok
          THEN [usersCollection EXCEPT ![user[p].Id] =
                   modifyInterests(@, likeInterests(user[p], video[p]))]
          ELSE usersCollection
    /\ IF maxLikes(video[p])
       THEN /\ pc' = [pc EXCEPT ![p] = "done"]
            /\ status' = [status EXCEPT ![p] = StatusOK]
            /\ logs' = [logs EXCEPT ![p] =
                   (IF ok THEN @ ELSE @ \cup {"updateErr"}) \cup {"maxLikes"}]
       ELSE /\ pc' = [pc EXCEPT ![p] = "count"]
            /\ logs' = [logs EXCEPT ![p] = IF ok THEN @ ELSE @ \cup {"updateErr"}]
            /\ UNCHANGED status
    /\ maxLikesLog' = IF maxLikes(video[p]) THEN maxLikesLog \cup {video[p].Id}
                      ELSE maxLikesLog
    /\ faults' = IF ok THEN faults ELSE faults + 1
    /\ UNCHANGED <<videosCollection, likedVideosCollection,
                   watchedVideosCollection, req, user, video, started, overlapped,
                   initialLikes>>

\* likeVideo: the tag loop, modifyInterests (one UpdateOne with $set, an
\* error is logged and dropped), then the check of video.Likes
likeVideoInterestsStep(p, ok) ==
    /\ pc[p] = "interests"
    /\ req[p].kind = "like"
    /\ usersCollection' =
          IF ok
          THEN [usersCollection EXCEPT ![user[p].Id] =
                   modifyInterests(user[p].Interests, likeInterests(user[p], video[p]))]
          ELSE usersCollection
    /\ IF maxLikes(video[p])
       THEN /\ pc' = [pc EXCEPT ![p] = "done"]
            /\ status' = [status EXCEPT ![p] = StatusOK]
            /\ logs' = [logs EXCEPT ![p] =
                   (IF ok THEN @ ELSE @ \cup {"updateErr"}) \cup {"maxLikes"}]
       ELSE /\ pc' = [pc EXCEPT ![p] = "count"]
            /\ logs' = [logs EXCEPT ![p] = IF ok THEN @ ELSE @ \cup {"updateErr"}]
            /\ UNCHANGED status
    /\ maxLikesLog' = IF maxLikes(video[p]) THEN maxLikesLog \cup {video[p].Id}
                      ELSE maxLikesLog
    /\ faults' = IF ok THEN faults ELSE faults + 1
    /\ UNCHANGED <<videosCollection, likedVideosCollection,
                   watchedVideosCollection, req, user, video, started, overlapped,
                   initialLikes>>

likeVideoInterests(p) == \E ok \in Outcomes : likeVideoInterestsStep(p, ok)

\* mutant: a failed counter update deletes the event row again
likeVideoCountStepRollback(p, ok) ==
    /\ pc[p] = "count"
    /\ req[p].kind = "like"
    /\ LET done == ok /\ videosCollection[video[p].Id] < MaxInt64
       IN  /\ videosCollection' =
                  IF done THEN [videosCollection EXCEPT ![video[p].Id] = @ + 1]
                  ELSE videosCollection
           /\ likedVideosCollection' =
                  IF done THEN likedVideosCollection
                  ELSE [likedVideosCollection EXCEPT
                           ![<<user[p].Id, video[p].Id>>] = @ - 1]
           /\ status' = [status EXCEPT ![p] =
                            IF done THEN StatusOK ELSE StatusError]
           /\ faults' = IF done THEN faults ELSE faults + 1
    /\ pc' = [pc EXCEPT ![p] = "done"]
    /\ UNCHANGED <<usersCollection,
                   watchedVideosCollection, req, user, video, logs, started, overlapped,
                   initialLikes, maxLikesLog>>

\* likeVideo: videosCollection.UpdateOne($inc likes 1); if err != nil
\* { return err }; return nil.  The store refuses an increment that
\* overflows the 64-bit field and reports an error.
likeVideoCountStep(p, ok) ==
    /\ pc[p] = "count"
    /\ req[p].kind = "like"
    /\ LET done == ok /\ videosCollection[video[p].Id] < MaxInt64
       IN  /\ videosCollection' =
                  IF done THEN [videosCollection EXCEPT ![video[p].Id] = @ + 1]
                  ELSE videosCollection
           /\ status' = [status EXCEPT ![p] =
                            IF done THEN StatusOK ELSE StatusError]
           /\ faults' = IF done THEN faults ELSE faults + 1
    /\ pc' = [pc EXCEPT ![p] = "done"]
    /\ UNCHANGED <<usersCollection, likedVideosCollection,
                   watchedVideosCollection, req, user, video, logs, started, overlapped,
                   initialLikes, maxLikesLog>>

likeVideoCount(p) == \E ok \in Outcomes : likeVideoCountStep(p, ok)

\* mutant: watchVideo inserts its event into the like collection
watchVideoInsertStepIntoLiked(p, ok) ==
    /\ pc[p] = "insert"
    /\ req[p].kind = "watch"
    /\ IF ok
       THEN /\ likedVideosCollection' =
                   [likedVideosCollection EXCEPT ![<<user[p].Id, video[p].Id>>] = @ + 1]
            /\ pc' = [pc EXCEPT ![p] = "interests"]
            /\ UNCHANGED status
       ELSE /\ pc' = [pc EXCEPT ![p] = "done"]
            /\ status' = [status EXCEPT ![p] = StatusError]
            /\ UNCHANGED likedVideosCollection
    /\ faults' = IF ok THEN faults ELSE faults + 1
    /\ UNCHANGED <<usersCollection, videosCollection, watchedVideosCollection,
                   req, user, video, logs, started, overlapped,
                   initialLikes, maxLikesLog>>

\* watchVideo: watchedVideosCollection.InsertOne; if err != nil { return err }
watchVideoInsertStep(p, ok) ==
    /\ pc[p] = "insert"
    /\ req[p].kind = "watch"
    /\ IF ok
       THEN /\ watchedVideosCollection' =
                   [watchedVideosCollection EXCEPT ![<<user[p].Id, video[p].Id>>] = @ + 1]
            /\ pc' = [pc EXCEPT ![p] = "interests"]
            /\ UNCHANGED status
       ELSE /\ pc' = [pc EXCEPT ![p] = "done"]
            /\ status' = [status EXCEPT ![p] = StatusError]
            /\ UNCHANGED watchedVideosCollection
    /\ faults' = IF ok THEN faults ELSE faults + 1
    /\ UNCHANGED <<usersCollection, videosCollection, likedVideosCollection,
                   req, user, video, logs, started, overlapped,
                   initialLikes, maxLikesLog>>

watchVideoInsert(p) == \E ok \in Outcomes : watchVideoInsertStep(p, ok)

\* mutant: modifyInterests returns its error and watchVideo returns it
watchVideoInterestsStepPropagate(p, ok) ==
    /\ pc[p] = "interests"
    /\ req[p].kind = "watch"
    /\ usersCollection' =
          IF ok
          THEN [usersCollection EXCEPT ![user[p].Id] =
                   modifyInterests(user[p].Interests, watchInterests(user[p], video[p]))]
          ELSE usersCollection
    /\ pc' = [pc EXCEPT ![p] = "done"]
    /\ status' = [status EXCEPT ![p] = IF ok THEN StatusOK ELSE StatusError]
    /\ logs' = [logs EXCEPT ![p] = IF ok THEN @ ELSE @ \cup {"updateErr"}]
    /\ faults' = IF ok THEN faults ELSE faults + 1
    /\ UNCHANGED <<videosCollection, likedVideosCollection,
                   watchedVideosCollection, req, user, video, started, overlapped,
                   initialLikes, maxLikesLog>>

\* watchVideo: the tag loop, modifyInterests, return nil
watchVideoInterestsStep(p, ok) ==
    /\ pc[p] = "interests"
    /\ req[p].kind = "watch"
    /\ usersCollection' =
          IF ok
          THEN [usersCollection EXCEPT ![user[p].Id] =
                   modifyInterests(user[p].Interests, watchInterests(user[p], video[p]))]
          ELSE usersCollection
    /\ pc' = [pc EXCEPT ![p] = "done"]
    /\ status' = [status EXCEPT ![p] = StatusOK]
    /\ logs' = [logs EXCEPT ![p] = IF ok THEN @ ELSE @ \cup {"updateErr"}]
    /\ faults' = IF ok THEN faults ELSE faults + 1
    /\ UNCHANGED <<videosCollection, likedVideosCollection,
                   watchedVideosCollection, req, user, video, started, overlapped,
                   initialLikes, maxLikesLog>>

watchVideoInterests(p) == \E ok \in Outcomes : watchVideoInterestsStep(p, ok)

\* -------------------------------------------------------- specifications
\* requests run concurrently, one goroutine each, interleaved at store calls
Next ==
    \/ \E p \in Procs : Request(p)
    \/ \E p \in Procs : handlerGuard(p)
    \/ \E p \in Procs : handlerGetUser(p)
    \/ \E p \in Procs : handlerGetVideo(p)
    \/ \E p \in Procs : likeVideoInsert(p)
    \/ \E p \in Procs : likeVideoInterests(p)
    \/ \E p \in Procs : likeVideoCount(p)
    \/ \E p \in Procs : watchVideoInsert(p)
    \/ \E p \in Procs : watchVideoInterests(p)

Spec == Init /\ [][Next]_vars

\* ------------------------------------------------------ claim vocabulary
Tags == {"cats", "funny"}
Weight(kind) == IF kind = "like" THEN 11 ELSE 0 - 1

\* number of occurrences of tag t in a tag list
RECURSIVE Occ(_, _)
Occ(tags, t) ==
    IF tags = <<>> THEN 0
    ELSE (IF Head(tags) = t THEN 1 ELSE 0) + Occ(Tail(tags), t)

\* occurrences of t over the rows of an event collection of user u
RECURSIVE OccOnRows(_, _, _, _)
OccOnRows(coll, u, t, vs) ==
    IF vs = {} THEN 0
    ELSE LET v == CHOOSE x \in vs : TRUE
         IN  coll[<<u, v>>] * Occ(VideoTags[v], t)
               + OccOnRows(coll, u, t, vs \ {v})

\* every request has returned
Quiet == \A p \in Procs : ~InFlight(p)

\* the event rows of the pair request r is about
Rows(r) == IF r.kind = "like"
           THEN likedVideosCollection[<<r.userId, r.videoId>>]
           ELSE watchedVideosCollection[<<r.userId, r.videoId>>]

\* request p takes a step
Steps(p) == pc'[p] # pc[p]

\* C1: when requests are handled one at a time and no store call fails,
\* after every completed request the stored score of user u for tag t is
\* 11 times the occurrences of t on the videos u liked minus the
\* occurrences of t on the videos u watched (0 for a tag never seen).
C1_ScoreIsSumOfWeights ==
    (Quiet /\ ~overlapped /\ faults = 0) =>
        \A u \in Users, t \in Tags :
            Get(usersCollection[u], t) =
                11 * OccOnRows(likedVideosCollection, u, t, Videos)
                  - OccOnRows(watchedVideosCollection, u, t, Videos)

\* C2 (as stated): under any interleaving of the request handlers, each
\* event collection holds at most one row for any (UserId, VideoId) pair.
C2_AtMostOneRow ==
    \A k \in Users \X Videos :
        likedVideosCollection[k] <= 1 /\ watchedVideosCollection[k] <= 1

\* C2 (amended): as long as no two requests have been in flight at the
\* same time, each event collection holds at most one row for any pair.
C2_AtMostOneRowOneAtATime ==
    ~overlapped =>
        \A k \in Users \X Videos :
            likedVideosCollection[k] <= 1 /\ watchedVideosCollection[k] <= 1

\* a second request for a pair was refused after the first one inserted
\* its row, in a run without overlap
C2_Witness ==
    /\ ~overlapped
    /\ \E p, q \in Procs :
          /\ p # q
          /\ pc[p] = "done" /\ status[p] = StatusOK
          /\ pc[q] = "done" /\ status[q] = StatusConflict
          /\ req[p] = req[q]
          /\ Rows(req[p]) = 1

\* C3: a like (watch) request whose guard query runs when an event row
\* for its pair is already stored is answered 412 and changes nothing in
\* the store; it takes no further step.
C3_RejectedOnceRecorded ==
    [][\A p \in Procs :
          (pc[p] = "guard" /\ Steps(p) /\ Rows(req[p]) >= 1) =>
              /\ pc'[p] = "done"
              /\ status'[p] = StatusConflict
              /\ UNCHANGED store]_vars

\* a like completed with its row inserted, then a like for the same pair
\* was refused although its count query did not fail
C3_Witness ==
    \E p, q \in Procs :
        /\ p # q
        /\ req[p].kind = "like" /\ req[q] = req[p]
        /\ pc[p] = "done" /\ status[p] = StatusOK
        /\ pc[q] = "done" /\ status[q] = StatusConflict
        /\ "countErr" \notin logs[q]
        /\ Rows(req[p]) >= 1

\* C4: when the count query of the guard fails, the error is logged, the
\* request is answered 412 (not an error) and nothing is inserted or
\* changed in the store.
C4_GuardFailsSafe ==
    [][\A p \in Procs :
          (pc[p] = "guard" /\ "countErr" \in logs'[p]) =>
              /\ pc'[p] = "done"
              /\ status'[p] = StatusConflict
              /\ UNCHANGED store]_vars

\* a request was refused because its count query failed, with no row
\* stored for its pair
C4_Witness ==
    \E p \in Procs :
        /\ pc[p] = "done" /\ status[p] = StatusConflict
        /\ "countErr" \in logs[p]
        /\ Rows(req[p]) = 0

C6_InsertFailureAborts ==
    [][\A p \in Procs :
          (pc[p] = "insert" /\ Steps(p) /\ faults' > faults) =>
              /\ pc'[p] = "done"
              /\ status'[p] = StatusError
              /\ UNCHANGED store]_vars

\* a request whose insert failed: user and video were read, the request
\* returned an error and there is no row for its pair
C6_Witness ==
    \E p \in Procs :
        /\ pc[p] = "done" /\ status[p] = StatusError
        /\ user[p] # NoUser /\ video[p] # NoVideo
        /\ Rows(req[p]) = 0
        /\ usersCollection[user[p].Id] = user[p].Interests

\* C7: a Like on a video read with Likes >= MaxInt64 - 1 never changes
\* Likes; once its row is inserted it persists the same interest change as
\* any other like (11 for a tag the user did not have), logs the
\* saturation and returns success without an increment.
C7_SaturatedLike ==
    [][\A p \in Procs :
          (req[p].kind = "like" /\ video[p] # NoVideo /\ Steps(p)
             /\ video[p].Likes >= MaxInt64 - 1) =>
              /\ UNCHANGED videosCollection
              /\ pc[p] = "interests" =>
                    /\ pc'[p] = "done"
                    /\ status'[p] = StatusOK
                    /\ "maxLikes" \in logs'[p]
                    /\ likedVideosCollection'[<<user[p].Id, video[p].Id>>] >= 1
                    /\ faults' = faults =>
                          /\ usersCollection'[user[p].Id] =
                                modifyInterests(user[p].Interests,
                                                likeInterests(user[p], video[p]))
                          /\ \A i \in 1..Len(video[p].Tags) :
                                video[p].Tags[i] \notin DOMAIN user[p].Interests =>
                                   usersCollection'[user[p].Id][video[p].Tags[i]] = 11
              /\ pc[p] # "count"]_vars

\* a like of a saturated video returned success: row stored, interests
\* stored, Likes as read
C7_Witness ==
    \E p \in Procs :
        /\ pc[p] = "done" /\ status[p] = StatusOK
        /\ req[p].kind = "like"
        /\ video[p].Likes = MaxInt64 - 1
        /\ "maxLikes" \in logs[p] /\ "updateErr" \notin logs[p]
        /\ videosCollection[video[p].Id] = MaxInt64 - 1
        /\ Rows(req[p]) = 1
        /\ usersCollection[user[p].Id] = [t \in {"cats", "funny"} |-> 11]

\* C8: under any interleaving of like requests by any number of users the
\* stored Likes of a video is non-negative, never decreases and never
\* exceeds MaxInt64 - 1.  Stated for the runs in which every (user, video)
\* pair is liked at most once, so that a violation is due to requests of
\* different users.
C8_LikesSaturate ==
    [][(\A k \in Users \X Videos : likedVideosCollection'[k] <= 1) =>
          \A v \in Videos :
              /\ videosCollection'[v] >= videosCollection[v]
              /\ videosCollection'[v] >= 0
              /\ videosCollection'[v] <= MaxInt64 - 1]_vars

\* C9: a Like handled alone with no store failure, by a user who has none
\* of the video's tags, on a non-saturated video with distinct tags, ends
\* with 11 stored for each tag of the video, Likes one higher than read
\* and exactly one LikeEvent row for the pair.
C9_FirstLike ==
    [][\A p \in Procs :
          (/\ pc[p] = "count" /\ pc'[p] = "done"
           /\ status'[p] = StatusOK
           /\ "updateErr" \notin logs[p]
           /\ ~overlapped
           /\ ~maxLikes(video[p])
           /\ \A i \in 1..Len(video[p].Tags) :
                 /\ video[p].Tags[i] \notin DOMAIN user[p].Interests
                 /\ Occ(video[p].Tags, video[p].Tags[i]) = 1) =>
              /\ \A i \in 1..Len(video[p].Tags) :
                    /\ video[p].Tags[i] \in DOMAIN usersCollection'[user[p].Id]
                    /\ usersCollection'[user[p].Id][video[p].Tags[i]] = 11
              /\ videosCollection'[video[p].Id] = video[p].Likes + 1
              /\ videosCollection'[video[p].Id] = videosCollection[video[p].Id] + 1
              /\ likedVideosCollection'[<<user[p].Id, video[p].Id>>] = 1]_vars

\* the spec's example: a user with empty interests liked the video tagged
\* [cats, funny]
C9_Witness ==
    \E p \in Procs :
        /\ ~overlapped /\ faults = 0
        /\ pc[p] = "done" /\ status[p] = StatusOK
        /\ req[p].kind = "like"
        /\ video[p].Tags = <<"cats", "funny">>
        /\ user[p].Interests = <<>>
        /\ usersCollection[user[p].Id] = [t \in {"cats", "funny"} |-> 11]
        /\ videosCollection[video[p].Id] = video[p].Likes + 1
        /\ Rows(req[p]) = 1

\* C10: a Like (Watch), handled alone and persisted, on a video listing
\* tag T exactly k times changes the stored score of T by k * 11 (k * -1).
C10_DuplicateTagsAccumulate ==
    [][\A p \in Procs :
          (pc[p] = "interests" /\ Steps(p) /\ faults' = faults
             /\ ~overlapped) =>
              \A t \in Tags :
                  Get(usersCollection'[user[p].Id], t) =
                      Get(usersCollection[user[p].Id], t)
                        + Occ(video[p].Tags, t) * Weight(req[p].kind)]_vars

\* the guards answer by the rows stored: true exactly when the pair has a row
GuardsTellRows ==
    \A u \in Users, v \in Videos :
        /\ hasLiked(u, v, TRUE) <=> (likedVideosCollection[<<u, v>>] >= 1)
        /\ hasWatched(u, v, TRUE) <=> (watchedVideosCollection[<<u, v>>] >= 1)

\* C11: when its count query does not fail, hasLiked / hasWatched returns
\* true exactly when the pair has at least one row in its collection (one
\* row or several, first query or repeated), so the request is refused
\* exactly then; and a guard query, failed or not, changes no collection.
C11_GuardTellsRows ==
    [][/\ GuardsTellRows
       /\ GuardsTellRows'
       /\ \A p \in Procs :
             (pc[p] = "guard" /\ Steps(p)) =>
                 /\ UNCHANGED store
                 /\ faults' = faults =>
                       /\ (Rows(req[p]) >= 1) =>
                             (pc'[p] = "done" /\ status'[p] = StatusConflict)
                       /\ (Rows(req[p]) = 0) =>
                             (pc'[p] = "getUser" /\ status'[p] = StatusNone)]_vars

\* hasWatched answered false before Watch(u, v) (the watch went through and
\* succeeded) and true afterwards (the next watch of the pair was refused
\* without a query failure)
C11_Witness ==
    \E p, q \in Procs :
        /\ p # q
        /\ req[p].kind = "watch" /\ req[q] = req[p]
        /\ pc[p] = "done" /\ status[p] = StatusOK
        /\ pc[q] = "done" /\ status[q] = StatusConflict
        /\ "countErr" \notin logs[q]
        /\ ~overlapped
        /\ watchedVideosCollection[<<req[p].userId, req[p].videoId>>] = 1

\* C12: a step of a watch request never changes the Likes of any video nor
\* any LikeEvent row; it changes at most the WatchEvent rows of its own
\* pair (one row more, at the insert) and the interests of its own user.
C12_WatchFrame ==
    [][\A p \in Procs :
          (req[p].kind = "watch" /\ InFlight(p) /\ Steps(p)) =>
              /\ UNCHANGED videosCollection
              /\ UNCHANGED likedVideosCollection
              /\ \A k \in Users \X Videos :
                    IF pc[p] = "insert" /\ pc'[p] = "interests"
                          /\ k = <<req[p].userId, req[p].videoId>>
                    THEN watchedVideosCollection'[k] = watchedVideosCollection[k] + 1
                    ELSE watchedVideosCollection'[k] = watchedVideosCollection[k]
              /\ \A u \in Users :
                    (u # req[p].userId \/ pc[p] # "interests") =>
                        usersCollection'[u] = usersCollection[u]]_vars

\* a watch completed: its row and the interests of its user are stored,
\* no like row and no like count came with it
C12_Witness ==
    \E p \in Procs :
        /\ req[p].kind = "watch"
        /\ pc[p] = "done" /\ status[p] = StatusOK
        /\ "updateErr" \notin logs[p]
        /\ started = 1
        /\ watchedVideosCollection[<<req[p].userId, req[p].videoId>>] = 1
        /\ usersCollection[req[p].userId] # <<>>
        /\ videosCollection = initialLikes
        /\ \A k \in Users \X Videos : likedVideosCollection[k] = 0

\* the map the request of process p hands to modifyInterests
ArgOf(p) == IF req[p].kind = "like" THEN likeInterests(user[p], video[p])
            ELSE watchInterests(user[p], video[p])

\* the interests a like / watch of video v persists for a user read with
\* the interests m
Persisted(m, kind, v) ==
    LET u == [Id |-> 0, Interests |-> m]
        vid == [Id |-> v, Tags |-> VideoTags[v], Likes |-> 0]
    IN  modifyInterests(m, IF kind = "like" THEN likeInterests(u, vid)
                           ELSE watchInterests(u, vid))

\* C13: the interests stored after two operations of a user handled one
\* after the other do not depend on their order: when the operation of q
\* was followed by the operation of p, the map p persists is the map the
\* opposite order (p's operation first, then q's) persists.
C13_OrderIndependent ==
    [][\A p, q \in Procs :
          (/\ p # q
           /\ pc[p] = "interests" /\ Steps(p)
           /\ faults = 0 /\ faults' = 0 /\ ~overlapped
           /\ pc[q] = "done" /\ status[q] = StatusOK
           /\ req[q].userId = req[p].userId
           /\ user[p].Interests =
                 Persisted(user[q].Interests, req[q].kind, req[q].videoId)) =>
              usersCollection'[req[p].userId] =
                  Persisted(Persisted(user[q].Interests,
                                      req[p].kind, req[p].videoId),
                            req[q].kind, req[q].videoId)]_vars

\* C14: modifyInterests adds the map it is given to the user's map: an
\* entry d for a tag persists s + d (s = 0 if absent), a tag absent from
\* the argument keeps its score (or stays absent), and a second call with
\* d2 on the result persists s + d + d2.
C14_ModifyInterestsAdditive ==
    [][\A p \in Procs :
          (pc[p] = "interests" /\ Steps(p) /\ faults' = faults) =>
              LET s == user[p].Interests
                  d == ArgOf(p)
                  new == usersCollection'[user[p].Id]
              IN  \A t \in Tags :
                     /\ t \in DOMAIN d =>
                           (t \in DOMAIN new /\ new[t] = Get(s, t) + d[t])
                     /\ t \notin DOMAIN d =>
                           /\ (t \in DOMAIN new) <=> (t \in DOMAIN s)
                           /\ Get(new, t) = Get(s, t)
                     /\ \A v2 \in Videos, w2 \in {LikeWeight, WatchWeight} :
                           LET d2 == tagLoop(new, VideoTags[v2], w2, <<>>)
                           IN  Get(modifyInterests(new, d2), t) =
                                  Get(s, t) + Get(d, t) + Get(d2, t)]_vars

\* a merge into a map that already had scores: the tag of the argument
\* holds s + d with s # 0 and a tag absent from the argument kept its score
C14_Witness ==
    \E p \in Procs :
        /\ pc[p] = "done" /\ status[p] = StatusOK
        /\ "updateErr" \notin logs[p]
        /\ ~overlapped /\ faults = 0
        /\ \E t \in DOMAIN ArgOf(p) :
              /\ t \in DOMAIN user[p].Interests
              /\ user[p].Interests[t] # 0
              /\ usersCollection[user[p].Id][t] =
                    user[p].Interests[t] + ArgOf(p)[t]
        /\ \E t \in (DOMAIN user[p].Interests) \ (DOMAIN ArgOf(p)) :
              usersCollection[user[p].Id][t] = user[p].Interests[t]

\* p and q handled a like of the same pair and both returned success, each
\* after its own increment of Likes
BothLiked(p, q) ==
    /\ p # q
    /\ req[p].kind = "like" /\ req[q] = req[p]
    /\ pc[p] = "done" /\ status[p] = StatusOK /\ "maxLikes" \notin logs[p]
    /\ pc[q] = "done" /\ status[q] = StatusOK /\ "maxLikes" \notin logs[q]

\* C15: two like requests for the same pair can both pass the guard (both
\* count queries run before either insert); whenever two such requests
\* have both returned success, the pair has two LikeEvent rows (or more)
\* and the Likes of the video is higher than initially by 2 (or more).
C15_TwoRowsTwoCounts ==
    \A p, q \in Procs :
        BothLiked(p, q) =>
            /\ likedVideosCollection[<<req[p].userId, req[p].videoId>>] >= 2
            /\ videosCollection[req[p].videoId] >=
                  initialLikes[req[p].videoId] + 2

\* the run of the two racing requests alone: it ends with exactly two rows
\* for the pair and Likes increased by exactly 2
C15_Witness ==
    \E p, q \in Procs :
        /\ BothLiked(p, q)
        /\ started = 2 /\ overlapped /\ faults = 0
        /\ likedVideosCollection[<<req[p].userId, req[p].videoId>>] = 2
        /\ videosCollection[req[p].videoId] = initialLikes[req[p].videoId] + 2

\* C16: the double interest increment: when two like requests for the same
\* pair both passed the guard and the merge of the second (p) is applied on
\* the interests the first (q) persisted, the stored score of each tag of
\* the video ends at its starting value plus 22.
C16_DoubleIncrement ==
    [][\A p, q \in Procs :
          (/\ p # q
           /\ req[p].kind = "like" /\ req[q] = req[p]
           /\ pc[p] = "interests" /\ Steps(p)
           /\ pc[q] \in {"count", "done"}
           /\ faults = 0 /\ faults' = 0
           /\ user[p].Interests =
                 Persisted(user[q].Interests, "like", req[q].videoId)) =>
              \A i \in 1..Len(video[p].Tags) :
                  Get(usersCollection'[req[p].userId], video[p].Tags[i]) =
                      Get(user[q].Interests, video[p].Tags[i]) + 22]_vars

\* the tags of a tag list
TagSet(tags) == {tags[i] : i \in 1..Len(tags)}

\* C17: the interests update replaces the whole stored map by the map the
\* request read, merged with its own argument: for every tag that is not
\* on its video the request writes back the score it read (absent if it
\* read none), whatever another request of the same user stored in
\* between; so of two operations that both read before either wrote, the
\* contribution of the first writer is missing from the stored map.
C17_LastWriteWins ==
    [][\A p \in Procs :
          (pc[p] = "interests" /\ Steps(p) /\ faults' = faults) =>
              LET new == usersCollection'[user[p].Id]
              IN  /\ DOMAIN new =
                        (DOMAIN user[p].Interests) \cup TagSet(video[p].Tags)
                  /\ \A t \in (DOMAIN new) \ TagSet(video[p].Tags) :
                        new[t] = user[p].Interests[t]]_vars

\* two operations of one user on videos with disjoint tags, both
\* successful with no store failure and both rows stored: the stored map
\* has no entry for the tags of one of them
C17_Witness ==
    \E p, q \in Procs :
        /\ p # q
        /\ req[p].userId = req[q].userId
        /\ pc[p] = "done" /\ status[p] = StatusOK
        /\ pc[q] = "done" /\ status[q] = StatusOK
        /\ faults = 0 /\ started = 2
        /\ TagSet(video[p].Tags) \cap TagSet(video[q].Tags) = {}
        /\ Rows(req[p]) = 1 /\ Rows(req[q]) = 1
        /\ DOMAIN usersCollection[req[p].userId] = TagSet(video[p].Tags)

\* number of rows of an event collection over the pairs ks
RECURSIVE CountRows(_, _)
CountRows(coll, ks) ==
    IF ks = {} THEN 0
    ELSE LET k == CHOOSE x \in ks : TRUE
         IN  coll[k] + CountRows(coll, ks \ {k})

\* the row a step of request p adds for pair k to the collection of kind
\* (1 for its own pair at its successful insert, 0 otherwise)
Inserted(p, kind, k) ==
    IF /\ req[p].kind = kind
       /\ pc[p] = "insert" /\ pc'[p] = "interests"
       /\ k = <<req[p].userId, req[p].videoId>>
    THEN 1 ELSE 0

\* C18: event rows are never retracted: no step lowers the number of rows
\* of any pair; a request adds rows only at its insert, one row for its own
\* pair, and comes to its insert once; and the steps after the insert
\* (interest persist, counter update), failed or not, leave the row of the
\* request in the store.
C18_RowsNeverRetracted ==
    [][\A p \in Procs :
          Steps(p) =>
              /\ \A k \in Users \X Videos :
                    /\ likedVideosCollection'[k] =
                          likedVideosCollection[k] + Inserted(p, "like", k)
                    /\ watchedVideosCollection'[k] =
                          watchedVideosCollection[k] + Inserted(p, "watch", k)
              /\ pc'[p] = "insert" => pc[p] = "getVideo"
              /\ pc[p] \in {"interests", "count"} =>
                    /\ pc'[p] \in {"count", "done"}
                    /\ Rows(req[p])' >= 1]_vars

\* a like returned the error of its counter update: its row and the
\* interests it persisted are in the store
C18_Witness ==
    \E p \in Procs :
        /\ req[p].kind = "like"
        /\ pc[p] = "done" /\ status[p] = StatusError
        /\ started = 1 /\ faults = 1
        /\ Rows(req[p]) = 1
        /\ usersCollection[req[p].userId] # <<>>
        /\ videosCollection = initialLikes

\* number of LikeEvent rows carrying the id of video v
LikeRows(v) == CountRows(likedVideosCollection, Users \X {v})

\* C19: the Likes of a video never exceeds its initial value by more than
\* the number of LikeEvent rows of the video; when every request has
\* returned, no store call failed and no like of the video was skipped for
\* saturation, the increase equals the number of rows.
C19_LikesFollowRows ==
    \A v \in Videos :
        /\ videosCollection[v] - initialLikes[v] <= LikeRows(v)
        /\ (Quiet /\ faults = 0 /\ v \notin maxLikesLog) =>
              videosCollection[v] - initialLikes[v] = LikeRows(v)

\* two users liked the same video: two rows and Likes higher by 2
C19_Witness ==
    \E v \in Videos :
        /\ Quiet /\ faults = 0 /\ v \notin maxLikesLog
        /\ likedVideosCollection[<<1, v>>] = 1
        /\ likedVideosCollection[<<2, v>>] = 1
        /\ videosCollection[v] = initialLikes[v] + 2

\* no request has stored interests for the user of p since p read them
Undisturbed(p) == usersCollection[user[p].Id] = user[p].Interests

\* C20: a step of a like request changes nothing but the LikeEvent rows of
\* its pair (one more at the insert), the Likes of its video (one more at
\* the counter update) and the interests of its user; when no other
\* request for that user is concurrent (the stored interests are still
\* those the request read), the scores of the tags that are not on the
\* video are unchanged too.
C20_LikeFrame ==
    [][\A p \in Procs :
          (req[p].kind = "like" /\ InFlight(p) /\ Steps(p)) =>
              LET u == req[p].userId
                  v == req[p].videoId
              IN  /\ UNCHANGED watchedVideosCollection
                  /\ \A k \in Users \X Videos :
                        likedVideosCollection'[k] =
                            likedVideosCollection[k] + Inserted(p, "like", k)
                  /\ \A w \in Videos :
                        videosCollection'[w] =
                            IF w = v /\ pc[p] = "count" /\ status'[p] = StatusOK
                            THEN videosCollection[w] + 1
                            ELSE videosCollection[w]
                  /\ \A o \in Users \ {u} :
                        usersCollection'[o] = usersCollection[o]
                  /\ pc[p] # "interests" =>
                        usersCollection'[u] = usersCollection[u]
                  /\ (pc[p] \in {"getVideo", "insert", "interests"}
                        /\ ~overlapped) => Undisturbed(p)
                  /\ (pc[p] = "interests" /\ Undisturbed(p)) =>
                        \A t \in Tags \ TagSet(video[p].Tags) :
                            /\ (t \in DOMAIN usersCollection'[u])
                                  <=> (t \in DOMAIN usersCollection[u])
                            /\ Get(usersCollection'[u], t) =
                                  Get(usersCollection[u], t)]_vars

\* a like handled alone by a user who had a score for a tag that is not on
\* the video: that score is still stored, the row and the count are there
C20_Witness ==
    \E p \in Procs :
        /\ req[p].kind = "like"
        /\ pc[p] = "done" /\ status[p] = StatusOK
        /\ "updateErr" \notin logs[p]
        /\ ~overlapped /\ faults = 0
        /\ Rows(req[p]) = 1
        /\ videosCollection[video[p].Id] = video[p].Likes + 1
        /\ \E t \in (DOMAIN user[p].Interests) \ TagSet(video[p].Tags) :
              /\ user[p].Interests[t] # 0
              /\ usersCollection[user[p].Id][t] = user[p].Interests[t]
        /\ \E t \in TagSet(video[p].Tags) :
              usersCollection[user[p].Id][t] # Get(user[p].Interests, t)

====
